---- MODULE Spec2Model ----
(***************************************************************************)
(* A model of the conversion engine of GES2DJI.py: load_and_tag_keyframes, *)
(* thin_keyframes, create_dji_wpml, create_template_kml and the pipeline   *)
(* ges_json_to_dji_kmz that runs them and writes the KMZ archive, and of   *)
(* ConverterApp.convert, which validates the window's settings and then    *)
(* calls the pipeline, and of the window's file list (add_files,           *)
(* remove_selected_file, set_poi_for_selected).                            *)
(*                                                                         *)
(* Numbers: latitudes and longitudes are whole degrees, altitudes whole    *)
(* metres, distances whole metres, angles whole degrees, speeds whole      *)
(* metres a second; the flight time is kept as a quotient.  A number, dict *)
(* or list that may be missing (or that float() rejects) is None or        *)
(* Some(v); a string that may be missing is NoVal or the string.           *)
(***************************************************************************)
EXTENDS Integers, Sequences, FiniteSets, TLC

VARIABLES
    app,                        \* ConverterApp: the Tk variables convert() reads
    status_callback,            \* argument: what a call of the callback does
    built,                      \* the documents earlier calls of create_dji_wpml returned
    json_files_list,            \* argument: the input paths, in order
    mission_settings,           \* argument: the settings dict
    file_pois,                  \* argument: path -> POI (lat, lon) or NoVal
    pc,                         \* position in ges_json_to_dji_kmz
    file_index,                 \* load_and_tag_keyframes: the loop's i
    files_read,                 \* the cameraFrames list found in each file so far
    all_tagged_keyframes,       \* load_and_tag_keyframes: the merged list
    thinned_tagged_keyframes,   \* what thin_keyframes returned
    i,                          \* create_dji_wpml: the enumerate index
    folder,                     \* create_dji_wpml: the Folder's Placemark children
    start_altitude,             \* create_dji_wpml: the altitude reference
    total_distance_meters,      \* create_dji_wpml: the summed path length
    calculated_duration_seconds,\* create_dji_wpml: the flight time, a quotient <<p, q>>
    target_pitch,               \* create_dji_wpml: the resolved gimbal pitch
    action_group_id_counter,    \* create_dji_wpml: next action-group id
    action_id_counter,          \* create_dji_wpml: next action id
    ref_kml_path,               \* argument: the text of the file at the path, or None
    kml_content,                \* what create_template_kml returned
    kmz_file,                   \* the file at kmz_path
    error,                      \* the exception that ended the run, or NoVal
    result                      \* what ges_json_to_dji_kmz returned, or NoVal

vars == <<app, status_callback, built,
          json_files_list, mission_settings, file_pois, pc, file_index, files_read,
          all_tagged_keyframes, thinned_tagged_keyframes, i, folder,
          start_altitude, total_distance_meters, calculated_duration_seconds,
          target_pitch, action_group_id_counter, action_id_counter,
          ref_kml_path, kml_content, kmz_file, error, result>>

-----------------------------------------------------------------------------
(* Bounds of the model *)

\* the most input files of one run
MaxFiles == 2
\* the most keyframes of one run, all files together
MaxKeyframes == 3
\* the most input files of a run started from the window
MaxAppFiles == 1
\* the farthest, in whole degrees from (0, 0), calculate_bearing is tried from
MaxDegrees == 1
\* the longest list given to thin_keyframes on its own, but for the one below
MaxThinLen == 12
\* the length of one long list given to thin_keyframes on its own
LongThinLen == 100
\* the most input files of a run whose callback may raise
MaxCallbackFiles == 1
\* the paths the window's file dialog can return
MaxPaths == 3
\* the most files picked in one file dialog
MaxPicked == 2
\* the most calls of create_dji_wpml before the one that is running
MaxBuilds == 2

-----------------------------------------------------------------------------
(* Constants of the program *)

NoVal == "None"
None == <<>>
Some(v) == <<v>>
Val(x) == x[1]

\* metres a second
DEFAULT_SPEED_MPS == 12
DEFAULT_ALTITUDE_TYPE == "WGS84"
DEFAULT_HEADING_MODE_WPML == "smoothTransition"
DEFAULT_TURN_MODE_INTERMEDIATE == "toPointAndPassWithContinuityCurvature"
DEFAULT_TURN_MODE_LAST == "toPointAndStopWithContinuityCurvature"
DEFAULT_TURN_DAMPING_DIST == 0
\* degrees
MIN_GIMBAL_PITCH == -90
MAX_GIMBAL_PITCH == 60
DEFAULT_GIMBAL_PITCH == 0

-----------------------------------------------------------------------------
(* The inputs the model draws from *)

Coordinate(lat, lon, alt) == [latitude |-> lat, longitude |-> lon, altitude |-> alt]

\* A keyframe of a GES file: its 'coordinate' dict (None: the key is missing),
\* whose fields are numbers (None: missing, or float() rejects it), and
\* whether it has a 'rotation' key.
Keyframes ==
    { [coordinate |-> Some(Coordinate(Some(0), Some(0), Some(100))), rotation |-> TRUE],
      [coordinate |-> Some(Coordinate(Some(0), Some(1), Some(150))), rotation |-> TRUE],
      [coordinate |-> Some(Coordinate(Some(1), Some(1), None)), rotation |-> TRUE],
      [coordinate |-> Some(Coordinate(None, Some(0), Some(120))), rotation |-> TRUE],
      [coordinate |-> None, rotation |-> TRUE] }

SeqsUpTo(S, n) == UNION { [1..k -> S] : k \in 0..n }

\* What open() + json.load() give for one path: an exception, or the parsed
\* data, whose 'cameraFrames' is a list or (None) absent or no list.
FileReads(room) ==
    { [raised |-> e, cameraFrames |-> None] : e \in {"FileNotFoundError", "JSONDecodeError"} }
    \cup { [raised |-> NoVal, cameraFrames |-> None] }
    \cup { [raised |-> NoVal, cameraFrames |-> Some(s)] : s \in SeqsUpTo(Keyframes, room) }

\* app when ges_json_to_dji_kmz is called by other code than convert()
NoApp == [convert |-> FALSE]

\* The paths are 1..n; the POI of a file, when set, is one fixed point.
PoiMaps(n) == [1..n -> {None, <<1, 0>>}]

HeadingModes == {"Follow Course", "Point Towards File's POI", "Manual Fixed Heading"}

\* A settings dict; 'speed' and 'fixed_pitch' are None when the key is
\* missing ('fixed_pitch' also when its value is None).
Settings(dw, at, hm, mh) ==
    [desired_waypoints |-> dw, altitudeType |-> at, heading_mode |-> hm, manual_heading |-> mh,
     speed |-> None, turnDamping |-> DEFAULT_TURN_DAMPING_DIST, fixed_pitch |-> None]

\* The settings records of the model: every heading mode, with and without
\* thinning; the altitude types, a manual heading left out, the gimbal pitch
\* and the speed are varied one at a time.
MissionSettings ==
    { Settings(dw, "WGS84", hm, IF hm = "Manual Fixed Heading" THEN Some(90) ELSE None) :
        dw \in {None, Some(2)}, hm \in HeadingModes }
    \cup { Settings(None, at, "Follow Course", None) : at \in {NoVal, "relativeToStartPoint"} }
    \cup { Settings(None, "WGS84", "Manual Fixed Heading", None) }
    \cup { [Settings(None, "WGS84", "Follow Course", None) EXCEPT !.fixed_pitch = Some(p)] :
             p \in {-100, -45, 75} }
    \cup { [Settings(None, "WGS84", "Follow Course", None) EXCEPT !.speed = Some(v)] :
             v \in {0, 5} }

-----------------------------------------------------------------------------
(* thin_keyframes *)

Min(a, b) == IF a < b THEN a ELSE b
Max(a, b) == IF a > b THEN a ELSE b

\* Python's round() of the quotient p / q (p >= 0, q > 0): to the nearest
\* integer, a tie to the even one.
RoundHalfEven(p, q) ==
    LET fl == p \div q
        r2 == 2 * (p % q)
    IN  IF r2 < q THEN fl
        ELSE IF r2 > q THEN fl + 1
        ELSE IF fl % 2 = 0 THEN fl ELSE fl + 1

\* (mutant) sorted the wrong way round
Sorted_Descending(s) ==
    [k \in 1..Cardinality(s) |->
        CHOOSE e \in s : Cardinality({x \in s : x > e}) = k - 1]

\* sorted(list(s)) for a set of integers
Sorted(s) ==
    [k \in 1..Cardinality(s) |->
        CHOOSE e \in s : Cardinality({x \in s : x < e}) = k - 1]

\* (mutant) round(i / (target_count - 1)) * (original_count - 1)
IndicesToKeep_Precedence(original_count, target_count) ==
    { Max(0, Min(original_count - 1,
                 RoundHalfEven(n, target_count - 1) * (original_count - 1))) :
        n \in 0..(target_count - 1) }
    \cup {0, original_count - 1}

\* (mutant) the step between ideal indices is cut to a whole number
IndicesToKeep_IntegerStep(original_count, target_count) ==
    { Max(0, Min(original_count - 1,
                 n * ((original_count - 1) \div (target_count - 1)))) :
        n \in 0..(target_count - 1) }
    \cup {0, original_count - 1}

\* The 0-based indices thin_keyframes keeps of original_count elements.
IndicesToKeep(original_count, target_count) ==
    { Max(0, Min(original_count - 1,
                 RoundHalfEven(n * (original_count - 1), target_count - 1))) :
        n \in 0..(target_count - 1) }
    \cup {0, original_count - 1}

\* (mutant) a missing target_count is taken to be 2
thin_keyframes_DefaultTarget(keyframes_list, target_count) ==
    LET original_count == Len(keyframes_list)
        target == IF target_count = None THEN 2 ELSE Val(target_count)
    IN  IF target <= 1 \/ target >= original_count
        THEN keyframes_list
        ELSE LET sorted_indices == Sorted(IndicesToKeep(original_count, target))
             IN  [k \in 1..Len(sorted_indices) |-> keyframes_list[sorted_indices[k] + 1]]

thin_keyframes(keyframes_list, target_count) ==
    LET original_count == Len(keyframes_list) IN
    IF target_count = None \/ Val(target_count) <= 1 \/ Val(target_count) >= original_count
    THEN keyframes_list
    ELSE LET sorted_indices == Sorted(IndicesToKeep(original_count, Val(target_count)))
         IN  [k \in 1..Len(sorted_indices) |-> keyframes_list[sorted_indices[k] + 1]]

-----------------------------------------------------------------------------
(* The except clause of ges_json_to_dji_kmz: report through the callback,  *)
(* return False; an exception raised by the report leaves the function      *)

\* (mutant) no except clause: every exception leaves the function
Fail_Uncaught(e) ==
    /\ error' = e
    /\ result' = "raised"
    /\ pc' = "done"

Fail(e) ==
    /\ error' = e
    /\ result' \in (IF status_callback = "raises" THEN {"False", "raised"} ELSE {"False"})
    /\ pc' = "done"

-----------------------------------------------------------------------------
(* load_and_tag_keyframes *)

find_keyframes(data) == data.cameraFrames

\* 'coordinate' in keyframes[0] and 'rotation' in keyframes[0]
FirstKeyframeOk(keyframes) ==
    keyframes[1].coordinate # None /\ keyframes[1].rotation

\* the (kf, json_path) tuples one file adds to the merged list
Tagged(keyframes, json_path) ==
    [k \in 1..Len(keyframes) |-> <<keyframes[k], json_path>>]

LoadBegin ==
    /\ pc = "start"
    /\ IF json_files_list = <<>>
       THEN Fail("ValueError: No JSON files selected")
       ELSE pc' = "load" /\ UNCHANGED <<error, result>>
    /\ UNCHANGED <<app, status_callback, built,
                   json_files_list, mission_settings, file_pois, file_index, files_read,
                   all_tagged_keyframes, thinned_tagged_keyframes, i, folder,
                   start_altitude, total_distance_meters, calculated_duration_seconds,
                   target_pitch, action_group_id_counter,
                   action_id_counter, ref_kml_path, kml_content, kmz_file>>

\* (mutant) an empty cameraFrames list raises
LoadOutcome_EmptyRaises(data) ==
    IF data.raised # NoVal THEN data.raised
    ELSE IF find_keyframes(data) = None THEN "Exception: Error processing file"
    ELSE IF Val(find_keyframes(data)) = <<>> THEN "Exception: Error processing file"
    ELSE IF ~FirstKeyframeOk(Val(find_keyframes(data))) THEN "Exception: Error processing file"
    ELSE "append"

\* What one turn of the loop does with what it read: "append" the tagged
\* keyframes, "skip" the file, or the exception it raises.
LoadOutcome(data) ==
    IF data.raised # NoVal THEN data.raised
    ELSE IF find_keyframes(data) = None THEN "Exception: Error processing file"
    ELSE IF Val(find_keyframes(data)) = <<>> THEN "skip"
    ELSE IF ~FirstKeyframeOk(Val(find_keyframes(data))) THEN "Exception: Error processing file"
    ELSE "append"

\* one turn of the loop over json_files_list
LoadFile ==
    /\ pc = "load"
    /\ file_index < Len(json_files_list)
    /\ \E data \in FileReads(MaxKeyframes - Len(all_tagged_keyframes)) :
         LET json_path == json_files_list[file_index + 1]
             keyframes == find_keyframes(data)
             outcome == LoadOutcome(data)
         IN  /\ files_read' = IF keyframes = None THEN files_read
                              ELSE Append(files_read, Val(keyframes))
             /\ IF outcome = "append"
                THEN /\ all_tagged_keyframes' =
                           all_tagged_keyframes \o Tagged(Val(keyframes), json_path)
                     /\ file_index' = file_index + 1
                     /\ UNCHANGED <<pc, error, result>>
                ELSE IF outcome = "skip"
                THEN /\ file_index' = file_index + 1
                     /\ UNCHANGED <<all_tagged_keyframes, pc, error, result>>
                ELSE Fail(outcome)
                     /\ UNCHANGED <<file_index, all_tagged_keyframes>>
    /\ UNCHANGED <<app, status_callback, built,
                   json_files_list, mission_settings, file_pois,
                   thinned_tagged_keyframes, i, folder, start_altitude,
                   total_distance_meters, calculated_duration_seconds,
                   target_pitch, action_group_id_counter,
                   action_id_counter, ref_kml_path, kml_content, kmz_file>>

\* after the loop
LoadEnd ==
    /\ pc = "load"
    /\ file_index = Len(json_files_list)
    /\ IF all_tagged_keyframes = <<>>
       THEN Fail("ValueError: No valid keyframes found")
       ELSE pc' = "thin" /\ UNCHANGED <<error, result>>
    /\ UNCHANGED <<app, status_callback, built,
                   json_files_list, mission_settings, file_pois, file_index, files_read,
                   all_tagged_keyframes, thinned_tagged_keyframes, i, folder,
                   start_altitude, total_distance_meters, calculated_duration_seconds,
                   target_pitch, action_group_id_counter,
                   action_id_counter, ref_kml_path, kml_content, kmz_file>>

-----------------------------------------------------------------------------
(* ges_json_to_dji_kmz, step 2: thinning *)

Thin ==
    /\ pc = "thin"
    /\ thinned_tagged_keyframes' =
           thin_keyframes(all_tagged_keyframes, mission_settings.desired_waypoints)
    /\ pc' = "build"
    /\ UNCHANGED <<app, status_callback, built,
                   json_files_list, mission_settings, file_pois, file_index, files_read,
                   all_tagged_keyframes, i, folder, start_altitude,
                   total_distance_meters, calculated_duration_seconds,
                   target_pitch, action_group_id_counter,
                   action_id_counter, ref_kml_path, kml_content, kmz_file, error, result>>

-----------------------------------------------------------------------------
(* Geodesy *)

Abs(x) == IF x < 0 THEN -x ELSE x
Sign(x) == IF x < 0 THEN -1 ELSE IF x > 0 THEN 1 ELSE 0

\* math.degrees(math.atan2(x, y)) of calculate_bearing, to the nearest degree,
\* for whole-degree points at most one degree apart next to (0, 0).
InitialBearing(lat1, lon1, lat2, lon2) ==
    LET north == Sign(lat2 - lat1)
        east == Sign(lon2 - lon1)
    IN  CASE east = 0 /\ north >= 0 -> 0
          [] east = 0 /\ north < 0 -> 180
          [] east > 0 /\ north > 0 -> 45
          [] east > 0 /\ north = 0 -> 90
          [] east > 0 /\ north < 0 -> 135
          [] east < 0 /\ north > 0 -> -45
          [] east < 0 /\ north = 0 -> -90
          [] east < 0 /\ north < 0 -> -135

\* (mutant) the bearing left in [0, 360)
calculate_bearing_NoSubtract(lat1, lon1, lat2, lon2) ==
    (InitialBearing(lat1, lon1, lat2, lon2) + 360) % 360

calculate_bearing(lat1, lon1, lat2, lon2) ==
    LET initial_bearing == InitialBearing(lat1, lon1, lat2, lon2)
        bearing == (initial_bearing + 360) % 360
    IN  IF bearing > 180 THEN bearing - 360 ELSE bearing

\* The haversine distance to the nearest metre, for the same points.
calculate_distance(lat1, lon1, lat2, lon2) ==
    LET dlat == Abs(lat2 - lat1)
        dlon == Abs(lon2 - lon1)
    IN  CASE dlat = 0 /\ dlon = 0 -> 0
          [] dlat # 0 /\ dlon = 0 -> 111195
          [] dlat = 0 /\ dlon # 0 -> IF lat1 = 0 THEN 111195 ELSE 111178
          [] OTHER -> 157249

-----------------------------------------------------------------------------
(* create_dji_wpml *)

\* float(kf['coordinate']['latitude']) and ['longitude'] both succeed
HasLatLon(kf) ==
    /\ kf.coordinate # None
    /\ Val(kf.coordinate).latitude # None
    /\ Val(kf.coordinate).longitude # None

\* float(kf['coordinate']['altitude']) succeeds
HasAltitude(kf) ==
    /\ kf.coordinate # None
    /\ Val(kf.coordinate).altitude # None

Lat(kf) == Val(Val(kf.coordinate).latitude)
Lon(kf) == Val(Val(kf.coordinate).longitude)
Alt(kf) == Val(Val(kf.coordinate).altitude)

\* The distance loop: total_distance_meters after the keyframes from the k-th
\* on, `last` being the last point whose latitude and longitude parsed.
RECURSIVE DistanceLoop(_, _, _, _)
DistanceLoop(keyframes, k, last, total) ==
    IF k > Len(keyframes) THEN total
    ELSE LET kf == keyframes[k][1] IN
         IF ~HasLatLon(kf) THEN DistanceLoop(keyframes, k + 1, last, total)
         ELSE DistanceLoop(keyframes, k + 1, Some(<<Lat(kf), Lon(kf)>>),
                  IF last = None THEN total
                  ELSE total + calculate_distance(Val(last)[1], Val(last)[2], Lat(kf), Lon(kf)))

TotalDistance(keyframes) == DistanceLoop(keyframes, 1, None, 0)

\* mission_settings.get('speed', DEFAULT_SPEED_MPS)
SpeedMps ==
    IF mission_settings.speed = None THEN DEFAULT_SPEED_MPS ELSE Val(mission_settings.speed)

\* calculated_duration_seconds for a distance, as the quotient <<p, q>>
Duration(distance, speed_mps) ==
    IF speed_mps > 0 THEN <<distance, speed_mps>> ELSE <<0, 1>>

\* (mutant) the clamp left out
ResolvePitch_NoClamp(fixed_pitch_setting) ==
    IF fixed_pitch_setting # None THEN Val(fixed_pitch_setting) ELSE DEFAULT_GIMBAL_PITCH

\* Determine Fixed Pitch: target_pitch from mission_settings.get('fixed_pitch')
ResolvePitch(fixed_pitch_setting) ==
    IF fixed_pitch_setting # None
    THEN Max(MIN_GIMBAL_PITCH, Min(MAX_GIMBAL_PITCH, Val(fixed_pitch_setting)))
    ELSE DEFAULT_GIMBAL_PITCH

\* the Placemark element a skipped point leaves in the folder: no children
EmptyPlacemark == [children |-> FALSE]

\* the text of wpml:index
WaypointIndex(n) == n

\* wpml:executeHeightMode of the Folder
ExecuteHeightMode ==
    IF mission_settings.altitudeType = NoVal THEN DEFAULT_ALTITUDE_TYPE
    ELSE mission_settings.altitudeType

ExecuteHeight(alt_amsl) ==
    IF mission_settings.altitudeType # "WGS84" THEN alt_amsl - start_altitude ELSE alt_amsl

TurnMode(n, num_keyframes) ==
    IF n = num_keyframes - 1 THEN DEFAULT_TURN_MODE_LAST ELSE DEFAULT_TURN_MODE_INTERMEDIATE

\* (mutant) the angle is enabled at every point
AngleEnable_Always(n, num_keyframes) == "1"

\* (mutant) the first and the last point of every source file count as ends
AngleEnable_PerFile(n, num_keyframes) ==
    LET file(k) == thinned_tagged_keyframes[k + 1][2]
    IN  IF \/ n = 0
           \/ n = num_keyframes - 1
           \/ file(n) # file(n - 1)
           \/ file(n) # file(n + 1)
        THEN "1" ELSE "0"

AngleEnable(n, num_keyframes) ==
    IF n = 0 \/ n = num_keyframes - 1 THEN "1" ELSE "0"

\* (mutant) file_pois[origin_file] for file_pois.get(origin_file): a file
\* without a POI raises
HeadingParam_PoiRequired(n, num_keyframes, lat, lon, origin_file) ==
    IF mission_settings.heading_mode = "Point Towards File's POI"
    THEN IF file_pois[origin_file] # None
         THEN [mode |-> DEFAULT_HEADING_MODE_WPML,
               angle |-> Some(calculate_bearing(lat, lon, file_pois[origin_file][1],
                                                file_pois[origin_file][2])),
               enable |-> AngleEnable(n, num_keyframes)]
         ELSE [mode |-> "followWayline", angle |-> None, enable |-> "0"]
    ELSE IF mission_settings.heading_mode = "Manual Fixed Heading"
    THEN [mode |-> DEFAULT_HEADING_MODE_WPML,
          angle |-> mission_settings.manual_heading,
          enable |-> AngleEnable(n, num_keyframes)]
    ELSE [mode |-> "followWayline", angle |-> Some(0), enable |-> "0"]

\* (mutant) the POI is looked up by the file of the keyframe before
HeadingParam_PoiOfPrevious(n, num_keyframes, lat, lon, origin_file) ==
    LET previous_file == thinned_tagged_keyframes[Max(n, 1)][2]
        poi_coords == file_pois[previous_file]
    IN  IF mission_settings.heading_mode = "Point Towards File's POI"
        THEN IF poi_coords # None
             THEN [mode |-> DEFAULT_HEADING_MODE_WPML,
                   angle |-> Some(calculate_bearing(lat, lon, poi_coords[1], poi_coords[2])),
                   enable |-> AngleEnable(n, num_keyframes)]
             ELSE [mode |-> "followWayline", angle |-> Some(0), enable |-> "0"]
        ELSE IF mission_settings.heading_mode = "Manual Fixed Heading"
        THEN [mode |-> DEFAULT_HEADING_MODE_WPML,
              angle |-> mission_settings.manual_heading,
              enable |-> AngleEnable(n, num_keyframes)]
        ELSE [mode |-> "followWayline", angle |-> Some(0), enable |-> "0"]

\* waypointHeadingMode, waypointHeadingAngle (None: no number to format) and
\* waypointHeadingAngleEnable of the point n at (lat, lon) from origin_file
HeadingParam(n, num_keyframes, lat, lon, origin_file) ==
    LET heading_mode_option == mission_settings.heading_mode
        followWayline == [mode |-> "followWayline", angle |-> Some(0), enable |-> "0"]
    IN  IF heading_mode_option = "Point Towards File's POI"
        THEN LET poi_coords == file_pois[origin_file] IN
             IF poi_coords # None
             THEN [mode |-> DEFAULT_HEADING_MODE_WPML,
                   angle |-> Some(calculate_bearing(lat, lon, poi_coords[1], poi_coords[2])),
                   enable |-> AngleEnable(n, num_keyframes)]
             ELSE followWayline
        ELSE IF heading_mode_option = "Manual Fixed Heading"
        THEN [mode |-> DEFAULT_HEADING_MODE_WPML,
              angle |-> mission_settings.manual_heading,
              enable |-> AngleEnable(n, num_keyframes)]
        ELSE followWayline

\* Action Group 1: gimbal rotate on reach point
ReachGroup(n, group_id, action_id) ==
    [actionGroupId |-> group_id, actionGroupStartIndex |-> n, actionGroupEndIndex |-> n,
     actionTriggerType |-> "reachPoint", actionId |-> action_id,
     actionActuatorFunc |-> "gimbalRotate", gimbalPitchRotateAngle |-> target_pitch]

\* Action Group 2: gimbal evenly rotate between points
BetweenGroup(n, group_id, action_id) ==
    [actionGroupId |-> group_id, actionGroupStartIndex |-> n, actionGroupEndIndex |-> n + 1,
     actionTriggerType |-> IF n = 0 THEN "reachPoint" ELSE "betweenAdjacentPoints",
     actionId |-> action_id, actionActuatorFunc |-> "gimbalEvenlyRotate",
     gimbalPitchRotateAngle |-> target_pitch]

\* whether the point n gets the second action group
HasBetweenGroup(n, num_keyframes) == n < num_keyframes - 1

\* (mutant) the two counters start again at every placemark
ActionGroups_PerPlacemark(n, num_keyframes, group_counter, action_counter) ==
    <<ReachGroup(n, 1, 1)>>
    \o IF HasBetweenGroup(n, num_keyframes)
       THEN <<BetweenGroup(n, 2, 2)>>
       ELSE <<>>

\* the action groups of the point n, in order, from the two counters
ActionGroups(n, num_keyframes, group_counter, action_counter) ==
    <<ReachGroup(n, group_counter, action_counter)>>
    \o IF HasBetweenGroup(n, num_keyframes)
       THEN <<BetweenGroup(n, group_counter + 1, action_counter + 1)>>
       ELSE <<>>

\* (mutant) the two counters are not set at the start of a call
BuildBegin_CountersKept ==
    /\ pc = "build"
    /\ IF thinned_tagged_keyframes = <<>>
       THEN Fail("ValueError: Thinned keyframes list is empty")
            /\ UNCHANGED <<i, folder, start_altitude, total_distance_meters,
                           calculated_duration_seconds, target_pitch,
                           action_group_id_counter, action_id_counter>>
       ELSE LET first_kf_data == thinned_tagged_keyframes[1][1] IN
            /\ total_distance_meters' = TotalDistance(thinned_tagged_keyframes)
            /\ calculated_duration_seconds' =
                   Duration(TotalDistance(thinned_tagged_keyframes), SpeedMps)
            /\ IF ~HasAltitude(first_kf_data)
               THEN Fail("KeyError: first keyframe altitude")
                    /\ UNCHANGED <<i, folder, start_altitude, target_pitch,
                                   action_group_id_counter, action_id_counter>>
               ELSE /\ start_altitude' = Alt(first_kf_data)
                    /\ target_pitch' = ResolvePitch(mission_settings.fixed_pitch)
                    /\ UNCHANGED <<action_group_id_counter, action_id_counter>>
                    /\ i' = 0
                    /\ folder' = <<>>
                    /\ pc' = "point"
                    /\ UNCHANGED <<error, result>>
    /\ UNCHANGED <<app, status_callback, built,
                   json_files_list, mission_settings, file_pois, file_index, files_read,
                   all_tagged_keyframes, thinned_tagged_keyframes,
                   ref_kml_path, kml_content, kmz_file>>

\* up to the counters: config, folder head, distance, altitude reference
BuildBegin ==
    /\ pc = "build"
    /\ IF thinned_tagged_keyframes = <<>>
       THEN Fail("ValueError: Thinned keyframes list is empty")
            /\ UNCHANGED <<i, folder, start_altitude, total_distance_meters,
                           calculated_duration_seconds, target_pitch,
                           action_group_id_counter, action_id_counter>>
       ELSE LET first_kf_data == thinned_tagged_keyframes[1][1] IN
            /\ total_distance_meters' = TotalDistance(thinned_tagged_keyframes)
            /\ calculated_duration_seconds' =
                   Duration(TotalDistance(thinned_tagged_keyframes), SpeedMps)
            /\ IF ~HasAltitude(first_kf_data)
               THEN Fail("KeyError: first keyframe altitude")
                    /\ UNCHANGED <<i, folder, start_altitude, target_pitch,
                                   action_group_id_counter, action_id_counter>>
               ELSE /\ start_altitude' = Alt(first_kf_data)
                    /\ target_pitch' = ResolvePitch(mission_settings.fixed_pitch)
                    /\ action_group_id_counter' = 1
                    /\ action_id_counter' = 1
                    /\ i' = 0
                    /\ folder' = <<>>
                    /\ pc' = "point"
                    /\ UNCHANGED <<error, result>>
    /\ UNCHANGED <<app, status_callback, built,
                   json_files_list, mission_settings, file_pois, file_index, files_read,
                   all_tagged_keyframes, thinned_tagged_keyframes,
                   ref_kml_path, kml_content, kmz_file>>

\* one turn of the loop over the tagged keyframes
BuildPoint ==
    /\ pc = "point"
    /\ i < Len(thinned_tagged_keyframes)
    /\ LET num_keyframes == Len(thinned_tagged_keyframes)
           kf == thinned_tagged_keyframes[i + 1][1]
           origin_file == thinned_tagged_keyframes[i + 1][2]
       IN  IF ~(HasLatLon(kf) /\ HasAltitude(kf))
           THEN \* the Placemark is already in the folder when the point is skipped
                /\ folder' = Append(folder, EmptyPlacemark)
                /\ i' = i + 1
                /\ UNCHANGED <<action_group_id_counter, action_id_counter, pc, error, result>>
           ELSE LET heading == HeadingParam(i, num_keyframes, Lat(kf), Lon(kf), origin_file)
                    groups == ActionGroups(i, num_keyframes, action_group_id_counter,
                                           action_id_counter)
                IN  IF heading.angle = None
                    THEN \* f"{wp_heading_angle:.1f}" of None
                         Fail("TypeError: heading angle")
                         /\ UNCHANGED <<i, folder, action_group_id_counter, action_id_counter>>
                    ELSE /\ folder' = Append(folder,
                               [children |-> TRUE,
                                coordinates |-> <<Lon(kf), Lat(kf)>>,
                                index |-> WaypointIndex(i),
                                executeHeight |-> ExecuteHeight(Alt(kf)),
                                waypointTurnMode |-> TurnMode(i, num_keyframes),
                                waypointHeadingMode |-> heading.mode,
                                waypointHeadingAngle |-> Val(heading.angle),
                                waypointHeadingAngleEnable |-> heading.enable,
                                \* not in the document: the tag of the keyframe
                                origin_file |-> origin_file,
                                actionGroups |-> groups])
                         /\ action_group_id_counter' = action_group_id_counter + Len(groups)
                         /\ action_id_counter' = action_id_counter + Len(groups)
                         /\ i' = i + 1
                         /\ UNCHANGED <<pc, error, result>>
    /\ UNCHANGED <<app, status_callback, built,
                   json_files_list, mission_settings, file_pois, file_index, files_read,
                   all_tagged_keyframes, thinned_tagged_keyframes, start_altitude,
                   total_distance_meters, calculated_duration_seconds,
                   target_pitch, ref_kml_path, kml_content, kmz_file>>

\* after the loop: the document is serialised and returned
BuildEnd ==
    /\ pc = "point"
    /\ i = Len(thinned_tagged_keyframes)
    /\ pc' = "template"
    /\ UNCHANGED <<app, status_callback, built,
                   json_files_list, mission_settings, file_pois, file_index, files_read,
                   all_tagged_keyframes, thinned_tagged_keyframes, i, folder,
                   start_altitude, total_distance_meters, calculated_duration_seconds,
                   target_pitch, action_group_id_counter,
                   action_id_counter, ref_kml_path, kml_content, kmz_file, error, result>>

-----------------------------------------------------------------------------
(* create_template_kml, and step 4 of ges_json_to_dji_kmz *)

\* A reference template.kml as read: its text (named, not spelled out), and
\* whether the text holds each marker and is well-formed XML.
RefKml(text, config, drone, parses) ==
    [text |-> text, missionConfig |-> config, droneInfo |-> drone, wellFormed |-> parses]

RefKmlContents ==
    { RefKml("", FALSE, FALSE, FALSE),
      RefKml("reference", TRUE, TRUE, TRUE),
      RefKml("reference, broken", TRUE, TRUE, FALSE),
      RefKml("reference, no missionConfig", FALSE, TRUE, TRUE),
      RefKml("reference, no droneInfo", TRUE, FALSE, TRUE) }

\* what is at ref_kml_path: nothing to read, or a text
RefKmlPaths == {None} \cup { Some(c) : c \in RefKmlContents }

DefaultTemplate == RefKml("default", TRUE, TRUE, TRUE)

create_template_kml(content) ==
    IF /\ content # None
       /\ Val(content).text # ""
       /\ Val(content).missionConfig
       /\ Val(content).droneInfo
    THEN Val(content)
    ELSE DefaultTemplate

\* ref_kml_content is None when no path is given, the path does not exist or
\* the read fails, and the file's text otherwise
Template ==
    /\ pc = "template"
    /\ LET ref_kml_content == ref_kml_path
       IN  kml_content' = create_template_kml(ref_kml_content)
    /\ pc' = "makedirs"
    /\ UNCHANGED <<app, status_callback, built,
                   json_files_list, mission_settings, file_pois, file_index, files_read,
                   all_tagged_keyframes, thinned_tagged_keyframes, i, folder,
                   start_altitude, total_distance_meters, calculated_duration_seconds,
                   target_pitch, action_group_id_counter, action_id_counter,
                   ref_kml_path, kmz_file, error, result>>

-----------------------------------------------------------------------------
(* ges_json_to_dji_kmz, step 5: the KMZ *)

\* The file at kmz_path: untouched (as it was before the call, there or not),
\* or opened for writing, with the entries written and whether it was closed.
Untouched == [opened |-> FALSE, entries |-> <<>>, closed |-> FALSE]

PackagingUnchanged ==
    UNCHANGED <<app, status_callback, built,
                json_files_list, mission_settings, file_pois, file_index, files_read,
                all_tagged_keyframes, thinned_tagged_keyframes, i, folder,
                start_altitude, total_distance_meters, calculated_duration_seconds,
                target_pitch, action_group_id_counter,
                action_id_counter, ref_kml_path, kml_content>>

\* os.makedirs(output_dir), when the directory is missing
MakeDirs ==
    /\ pc = "makedirs"
    /\ \/ pc' = "open" /\ UNCHANGED <<error, result>>
       \/ Fail("OSError: makedirs")
    /\ UNCHANGED kmz_file
    /\ PackagingUnchanged

\* zipfile.ZipFile(kmz_path, 'w'): creates or truncates the file
OpenArchive ==
    /\ pc = "open"
    /\ \/ /\ kmz_file' = [opened |-> TRUE, entries |-> <<>>, closed |-> FALSE]
          /\ pc' = "waylines"
          /\ UNCHANGED <<error, result>>
       \/ Fail("OSError: open") /\ UNCHANGED kmz_file
    /\ PackagingUnchanged

\* zf.writestr('wpmz/waylines.wpml', ...); an exception leaves the with block
WriteWaylines ==
    /\ pc = "waylines"
    /\ \/ /\ kmz_file' = [kmz_file EXCEPT !.entries = Append(@, "wpmz/waylines.wpml")]
          /\ pc' = "templatekml"
          /\ UNCHANGED <<error, result>>
       \/ Fail("OSError: write") /\ UNCHANGED kmz_file
    /\ PackagingUnchanged

\* (mutant) the second entry is not written
WriteTemplate_NotWritten ==
    /\ pc = "templatekml"
    /\ pc' = "close"
    /\ UNCHANGED <<kmz_file, error, result>>
    /\ PackagingUnchanged

\* zf.writestr('wpmz/template.kml', ...)
WriteTemplate ==
    /\ pc = "templatekml"
    /\ \/ /\ kmz_file' = [kmz_file EXCEPT !.entries = Append(@, "wpmz/template.kml")]
          /\ pc' = "close"
          /\ UNCHANGED <<error, result>>
       \/ Fail("OSError: write") /\ UNCHANGED kmz_file
    /\ PackagingUnchanged

\* the end of the with block, then return True
CloseArchive ==
    /\ pc = "close"
    /\ \/ /\ kmz_file' = [kmz_file EXCEPT !.closed = TRUE]
          /\ result' = "True"
          /\ pc' = "done"
          /\ UNCHANGED error
       \/ Fail("OSError: close") /\ UNCHANGED kmz_file
    /\ PackagingUnchanged

-----------------------------------------------------------------------------
(* The run of ges_json_to_dji_kmz *)

Init ==
    /\ mission_settings \in MissionSettings
    /\ \E n \in 0..MaxFiles :
         /\ json_files_list = [k \in 1..n |-> k]
         /\ file_pois \in PoiMaps(n)
         \* only the POI mode reads file_pois
         /\ mission_settings.heading_mode # "Point Towards File's POI"
                => file_pois = [k \in 1..n |-> None]
    \* the reference template is varied with the plainest settings only
    /\ ref_kml_path \in RefKmlPaths
    /\ mission_settings # Settings(None, "WGS84", "Follow Course", None)
           => ref_kml_path = None
    /\ app = NoApp
    /\ pc = "start"
    /\ file_index = 0
    /\ files_read = <<>>
    /\ all_tagged_keyframes = <<>>
    /\ thinned_tagged_keyframes = <<>>
    /\ i = 0
    /\ folder = <<>>
    /\ start_altitude = 0
    /\ total_distance_meters = 0
    /\ calculated_duration_seconds = <<0, 1>>
    /\ target_pitch = DEFAULT_GIMBAL_PITCH
    /\ action_group_id_counter = 1
    /\ action_id_counter = 1
    /\ kml_content = DefaultTemplate
    /\ kmz_file = Untouched
    /\ status_callback = "returns"
    /\ built = <<>>
    /\ error = NoVal
    /\ result = NoVal

Next ==
    \/ LoadBegin
    \/ LoadFile
    \/ LoadEnd
    \/ Thin
    \/ BuildBegin
    \/ BuildPoint
    \/ BuildEnd
    \/ Template
    \/ MakeDirs
    \/ OpenArchive
    \/ WriteWaylines
    \/ WriteTemplate
    \/ CloseArchive

Spec == Init /\ [][Next]_vars

-----------------------------------------------------------------------------
(* ConverterApp.convert: the window's validation in front of the pipeline *)

\* The text of an entry field: empty, a number, or text that is no number.
Entry(kind, value) == [kind |-> kind, value |-> value]
Empty == Entry("empty", 0)
Number(n) == Entry("number", n)
Junk == Entry("junk", 0)

\* The Tk variables convert() reads.
App(speed, damping, dw, pitch, hm, mh, kmz) ==
    [convert |-> TRUE, speed_var |-> speed, turn_damping_var |-> damping,
     desired_waypoints_var |-> dw, fixed_pitch_var |-> pitch, heading_mode_var |-> hm,
     manual_heading_var |-> mh, kmz_file_var |-> kmz, altitude_type_var |-> DEFAULT_ALTITUDE_TYPE]

\* the window as it starts, with a speed and an output path entered
PlainApp ==
    App(Number(5), Number(DEFAULT_TURN_DAMPING_DIST), Empty, Empty, "Follow Course", Empty,
        "out.kmz")

\* The windows of the model: each field is varied on its own.
Apps ==
    { [PlainApp EXCEPT !.speed_var = e] : e \in {Number(5), Number(0), Number(-1), Junk} }
    \cup { [PlainApp EXCEPT !.turn_damping_var = e] : e \in {Number(2), Number(-1)} }
    \cup { [PlainApp EXCEPT !.desired_waypoints_var = e] : e \in {Number(2), Number(0), Junk} }
    \cup { [PlainApp EXCEPT !.fixed_pitch_var = e] : e \in {Number(-100), Junk} }
    \cup { [PlainApp EXCEPT !.heading_mode_var = "Manual Fixed Heading",
                            !.manual_heading_var = e] :
             e \in {Empty, Junk, Number(-181), Number(181), Number(180), Number(90)} }
    \cup { [PlainApp EXCEPT !.heading_mode_var = "Point Towards File's POI"] }
    \cup { [PlainApp EXCEPT !.kmz_file_var = ""] }

\* int(s) or float(s) of a field that may be left empty
Parsed(entry) == IF entry.kind = "number" THEN Some(entry.value) ELSE None

\* (mutant) speed < 0 for speed <= 0
Validate_ZeroSpeed(a) ==
    IF a.speed_var.kind # "number" \/ a.turn_damping_var.kind # "number"
    THEN "TclError: Invalid numeric value entered"
    ELSE IF a.speed_var.value < 0 \/ a.turn_damping_var.value < 0
    THEN "ValueError: Speed must be positive and Turn Damping non-negative"
    ELSE IF a.desired_waypoints_var.kind = "junk"
    THEN "ValueError: int()"
    ELSE IF a.desired_waypoints_var.kind = "number" /\ a.desired_waypoints_var.value <= 0
    THEN "ValueError: Desired Waypoints must be a positive number"
    ELSE IF a.fixed_pitch_var.kind = "junk"
    THEN "ValueError: float()"
    ELSE IF /\ a.heading_mode_var = "Point Towards File's POI"
            /\ \E k \in 1..Len(json_files_list) : file_pois[json_files_list[k]] = None
    THEN "ValueError: POI coordinates must be set for all files"
    ELSE IF a.heading_mode_var = "Manual Fixed Heading" /\ a.manual_heading_var.kind = "empty"
    THEN "ValueError: Manual Heading Angle is required"
    ELSE IF a.heading_mode_var = "Manual Fixed Heading" /\ a.manual_heading_var.kind = "junk"
    THEN "ValueError: float()"
    ELSE IF /\ a.heading_mode_var = "Manual Fixed Heading"
            /\ ~(-180 <= a.manual_heading_var.value /\ a.manual_heading_var.value <= 180)
    THEN "ValueError: Manual Heading Angle must be between -180 and 180"
    ELSE NoVal

\* The try block of convert(): the exception it shows, or NoVal.
Validate(a) ==
    IF a.speed_var.kind # "number" \/ a.turn_damping_var.kind # "number"
    THEN "TclError: Invalid numeric value entered"
    ELSE IF a.speed_var.value <= 0 \/ a.turn_damping_var.value < 0
    THEN "ValueError: Speed must be positive and Turn Damping non-negative"
    ELSE IF a.desired_waypoints_var.kind = "junk"
    THEN "ValueError: int()"
    ELSE IF a.desired_waypoints_var.kind = "number" /\ a.desired_waypoints_var.value <= 0
    THEN "ValueError: Desired Waypoints must be a positive number"
    ELSE IF a.fixed_pitch_var.kind = "junk"
    THEN "ValueError: float()"
    ELSE IF /\ a.heading_mode_var = "Point Towards File's POI"
            /\ \E k \in 1..Len(json_files_list) : file_pois[json_files_list[k]] = None
    THEN "ValueError: POI coordinates must be set for all files"
    ELSE IF a.heading_mode_var = "Manual Fixed Heading" /\ a.manual_heading_var.kind = "empty"
    THEN "ValueError: Manual Heading Angle is required"
    ELSE IF a.heading_mode_var = "Manual Fixed Heading" /\ a.manual_heading_var.kind = "junk"
    THEN "ValueError: float()"
    ELSE IF /\ a.heading_mode_var = "Manual Fixed Heading"
            /\ ~(-180 <= a.manual_heading_var.value /\ a.manual_heading_var.value <= 180)
    THEN "ValueError: Manual Heading Angle must be between -180 and 180"
    ELSE NoVal

\* the mission_settings dict convert() prepares
PreparedSettings(a) ==
    [desired_waypoints |-> Parsed(a.desired_waypoints_var),
     altitudeType |-> a.altitude_type_var,
     heading_mode |-> a.heading_mode_var,
     manual_heading |-> IF a.heading_mode_var = "Manual Fixed Heading"
                        THEN Parsed(a.manual_heading_var) ELSE None,
     speed |-> Some(a.speed_var.value),
     turnDamping |-> a.turn_damping_var.value,
     fixed_pitch |-> Parsed(a.fixed_pitch_var)]

\* messagebox.showerror(...); return
Reject(message) ==
    /\ error' = message
    /\ pc' = "rejected"
    /\ UNCHANGED mission_settings

\* convert(), up to its call of ges_json_to_dji_kmz
Convert ==
    /\ pc = "convert"
    /\ IF json_files_list = <<>>
       THEN Reject("Please select one or more input JSON files")
       ELSE IF app.kmz_file_var = ""
       THEN Reject("Please specify an output KMZ file path")
       ELSE IF Validate(app) # NoVal
       THEN Reject(Validate(app))
       ELSE /\ mission_settings' = PreparedSettings(app)
            /\ pc' = "start"
            /\ UNCHANGED error
    /\ UNCHANGED <<app, status_callback, built,
                   json_files_list, file_pois, file_index, files_read,
                   all_tagged_keyframes, thinned_tagged_keyframes, i, folder,
                   start_altitude, total_distance_meters, calculated_duration_seconds,
                   target_pitch, action_group_id_counter, action_id_counter,
                   ref_kml_path, kml_content, kmz_file, result>>

\* Settings records that ges_json_to_dji_kmz is given by other code than
\* convert(): the speed, the turn damping and the manual heading unchecked.
UncheckedSettings ==
    { [Settings(None, "WGS84", "Follow Course", None) EXCEPT !.speed = Some(0)],
      [Settings(None, "WGS84", "Follow Course", None) EXCEPT !.turnDamping = -1],
      Settings(None, "WGS84", "Manual Fixed Heading", Some(270)),
      Settings(None, "WGS84", "Manual Fixed Heading", None) }

\* A click on Convert in a window of the model, or a call of the pipeline
\* with unchecked settings.
InitApp ==
    /\ \/ /\ app \in Apps
          /\ pc = "convert"
          /\ mission_settings = Settings(None, NoVal, "Follow Course", None)
       \/ /\ app = NoApp
          /\ pc = "start"
          /\ mission_settings \in UncheckedSettings
    /\ \E n \in 0..MaxAppFiles :
         /\ json_files_list = [k \in 1..n |-> k]
         /\ file_pois \in PoiMaps(n)
         /\ (app = NoApp \/ app.heading_mode_var # "Point Towards File's POI")
                => file_pois = [k \in 1..n |-> None]
    /\ ref_kml_path = None
    /\ file_index = 0
    /\ files_read = <<>>
    /\ all_tagged_keyframes = <<>>
    /\ thinned_tagged_keyframes = <<>>
    /\ i = 0
    /\ folder = <<>>
    /\ start_altitude = 0
    /\ total_distance_meters = 0
    /\ calculated_duration_seconds = <<0, 1>>
    /\ target_pitch = DEFAULT_GIMBAL_PITCH
    /\ action_group_id_counter = 1
    /\ action_id_counter = 1
    /\ kml_content = DefaultTemplate
    /\ kmz_file = Untouched
    /\ status_callback = "returns"
    /\ built = <<>>
    /\ error = NoVal
    /\ result = NoVal

NextApp ==
    \/ Convert
    \/ Next

SpecApp == InitApp /\ [][NextApp]_vars

-----------------------------------------------------------------------------
(* thin_keyframes on its own: lists of distinct keyframes (a climb of a metre *)
(* a keyframe, the first half from file 1, the rest from file 2), every       *)
(* target count around their lengths                                          *)

ClimbingKeyframes(m) ==
    [k \in 1..m |->
        <<[coordinate |-> Some(Coordinate(Some(0), Some(0), Some(k))), rotation |-> TRUE],
          IF 2 * k <= m THEN 1 ELSE 2>>]

InitThin ==
    /\ \E m \in (0..MaxThinLen) \cup {LongThinLen} :
         all_tagged_keyframes = ClimbingKeyframes(m)
    /\ \E dw \in {None} \cup { Some(t) : t \in -1..(MaxThinLen + 1) } :
         mission_settings = Settings(dw, "WGS84", "Follow Course", None)
    /\ json_files_list = <<1, 2>>
    /\ file_pois = [k \in 1..2 |-> None]
    /\ app = NoApp
    /\ pc = "thin"
    /\ file_index = 2
    /\ files_read = <<>>
    /\ thinned_tagged_keyframes = <<>>
    /\ i = 0
    /\ folder = <<>>
    /\ start_altitude = 0
    /\ total_distance_meters = 0
    /\ calculated_duration_seconds = <<0, 1>>
    /\ target_pitch = DEFAULT_GIMBAL_PITCH
    /\ action_group_id_counter = 1
    /\ action_id_counter = 1
    /\ ref_kml_path = None
    /\ kml_content = DefaultTemplate
    /\ kmz_file = Untouched
    /\ status_callback = "returns"
    /\ built = <<>>
    /\ error = NoVal
    /\ result = NoVal

NextThin == Thin

SpecThin == InitThin /\ [][NextThin]_vars

-----------------------------------------------------------------------------
(* calculate_bearing on its own: one waypoint on the grid of whole degrees   *)
(* around (0, 0) and the POI of its file on the same point or on one of its  *)
(* eight neighbours, the heading computed as create_dji_wpml computes it     *)

InitBearing ==
    /\ \E lat1, lon1 \in -MaxDegrees..MaxDegrees, dlat, dlon \in -1..1 :
         /\ thinned_tagged_keyframes =
               <<<<[coordinate |-> Some(Coordinate(Some(lat1), Some(lon1), Some(100))),
                    rotation |-> TRUE], 1>>>>
         /\ file_pois = [k \in 1..1 |-> <<lat1 + dlat, lon1 + dlon>>]
    /\ all_tagged_keyframes = thinned_tagged_keyframes
    /\ mission_settings = Settings(None, "WGS84", "Point Towards File's POI", None)
    /\ json_files_list = <<1>>
    /\ app = NoApp
    /\ ref_kml_path = None
    /\ pc = "point"
    /\ file_index = 1
    /\ files_read = <<>>
    /\ i = 0
    /\ folder = <<>>
    /\ start_altitude = 100
    /\ total_distance_meters = 0
    /\ calculated_duration_seconds = <<0, 1>>
    /\ target_pitch = DEFAULT_GIMBAL_PITCH
    /\ action_group_id_counter = 1
    /\ action_id_counter = 1
    /\ kml_content = DefaultTemplate
    /\ kmz_file = Untouched
    /\ status_callback = "returns"
    /\ built = <<>>
    /\ error = NoVal
    /\ result = NoVal

NextBearing == BuildPoint

SpecBearing == InitBearing /\ [][NextBearing]_vars

-----------------------------------------------------------------------------
(* The pipeline with a callback that may raise at any of its calls *)

\* what the callback raises: an Exception, or a BaseException that is none
\* (KeyboardInterrupt, SystemExit)
CallbackException == "Exception: raised by status_callback"
CallbackBaseException == "BaseException: raised by status_callback"

\* the position is at a call of status_callback
CallsCallback ==
    \/ /\ pc = "load"
       /\ \/ file_index < Len(json_files_list)
          \/ all_tagged_keyframes # <<>>
    \/ /\ pc = "thin"
       /\ mission_settings.desired_waypoints # None
       /\ Val(mission_settings.desired_waypoints) # 0
    \/ pc = "build"
    \/ /\ pc = "point"
       /\ IF i = Len(thinned_tagged_keyframes) THEN TRUE
          ELSE \/ i % 10 = 0
               \/ ~HasLatLon(thinned_tagged_keyframes[i + 1][1])
               \/ ~HasAltitude(thinned_tagged_keyframes[i + 1][1])
    \/ pc \in {"template", "makedirs"}

\* an exception on its way out of the try block: the except clause catches
\* an Exception and lets any other pass
Raise(e) ==
    IF e = CallbackBaseException
    THEN /\ error' = e
         /\ result' = "raised"
         /\ pc' = "done"
    ELSE Fail(e)

\* a call of status_callback raises
CallbackRaises ==
    /\ status_callback = "raises"
    /\ \/ \* a call outside any inner try block
          /\ CallsCallback
          /\ \E e \in {CallbackException, CallbackBaseException} : Raise(e)
          /\ UNCHANGED <<files_read, all_tagged_keyframes, kmz_file>>
       \/ \* "Loaded ... keyframes", inside the loader's try block: an
          \* Exception is raised again as Exception("Error processing file")
          /\ pc = "load"
          /\ file_index < Len(json_files_list)
          /\ \E data \in FileReads(MaxKeyframes - Len(all_tagged_keyframes)) :
               /\ LoadOutcome(data) = "append"
               /\ files_read' = Append(files_read, Val(find_keyframes(data)))
               /\ all_tagged_keyframes' =
                      all_tagged_keyframes \o Tagged(Val(find_keyframes(data)),
                                                     json_files_list[file_index + 1])
          /\ \E e \in {"Exception: Error processing file", CallbackBaseException} : Raise(e)
          /\ UNCHANGED kmz_file
       \/ \* "Successfully created KMZ", after the with block
          /\ pc = "close"
          /\ kmz_file' = [kmz_file EXCEPT !.closed = TRUE]
          /\ \E e \in {CallbackException, CallbackBaseException} : Raise(e)
          /\ UNCHANGED <<files_read, all_tagged_keyframes>>
    /\ UNCHANGED <<app, status_callback, built, json_files_list, mission_settings,
                   file_pois, file_index, thinned_tagged_keyframes, i, folder,
                   start_altitude, total_distance_meters, calculated_duration_seconds,
                   target_pitch, action_group_id_counter, action_id_counter,
                   ref_kml_path, kml_content>>

\* a call of ges_json_to_dji_kmz with a callback that returns or one that
\* may raise, with and without thinning
InitCallback ==
    /\ status_callback \in {"returns", "raises"}
    /\ \E dw \in {None, Some(0), Some(2)} :
         mission_settings = Settings(dw, "WGS84", "Follow Course", None)
    /\ \E n \in 0..MaxCallbackFiles :
         /\ json_files_list = [k \in 1..n |-> k]
         /\ file_pois = [k \in 1..n |-> None]
    /\ ref_kml_path = None
    /\ app = NoApp
    /\ built = <<>>
    /\ pc = "start"
    /\ file_index = 0
    /\ files_read = <<>>
    /\ all_tagged_keyframes = <<>>
    /\ thinned_tagged_keyframes = <<>>
    /\ i = 0
    /\ folder = <<>>
    /\ start_altitude = 0
    /\ total_distance_meters = 0
    /\ calculated_duration_seconds = <<0, 1>>
    /\ target_pitch = DEFAULT_GIMBAL_PITCH
    /\ action_group_id_counter = 1
    /\ action_id_counter = 1
    /\ kml_content = DefaultTemplate
    /\ kmz_file = Untouched
    /\ error = NoVal
    /\ result = NoVal

NextCallback ==
    \/ CallbackRaises
    \/ Next

SpecCallback == InitCallback /\ [][NextCallback]_vars

-----------------------------------------------------------------------------
(* create_dji_wpml called again and again with the same arguments: a list of *)
(* keyframes of one file with a POI, under each heading mode                 *)

\* what a call of create_dji_wpml returns, before serialisation
WpmlDocument ==
    [distance |-> total_distance_meters,
     duration |-> calculated_duration_seconds,
     placemarks |-> folder]

\* the caller keeps the document and calls create_dji_wpml once more
BuildAgain ==
    /\ pc = "template"
    /\ Len(built) < MaxBuilds
    /\ built' = Append(built, WpmlDocument)
    /\ pc' = "build"
    /\ UNCHANGED <<app, status_callback, json_files_list, mission_settings, file_pois,
                   file_index, files_read, all_tagged_keyframes, thinned_tagged_keyframes,
                   i, folder, start_altitude, total_distance_meters,
                   calculated_duration_seconds, target_pitch, action_group_id_counter,
                   action_id_counter, ref_kml_path, kml_content, kmz_file, error, result>>

InitRebuild ==
    /\ \E keyframes \in SeqsUpTo(Keyframes, MaxKeyframes) :
         thinned_tagged_keyframes = Tagged(keyframes, 1)
    /\ all_tagged_keyframes = thinned_tagged_keyframes
    /\ \E hm \in HeadingModes :
         mission_settings =
             Settings(None, "WGS84", hm, IF hm = "Manual Fixed Heading" THEN Some(90) ELSE None)
    /\ json_files_list = <<1>>
    /\ file_pois = [k \in 1..1 |-> <<1, 0>>]
    /\ app = NoApp
    /\ status_callback = "returns"
    /\ built = <<>>
    /\ pc = "build"
    /\ file_index = 1
    /\ files_read = <<>>
    /\ i = 0
    /\ folder = <<>>
    /\ start_altitude = 0
    /\ total_distance_meters = 0
    /\ calculated_duration_seconds = <<0, 1>>
    /\ target_pitch = DEFAULT_GIMBAL_PITCH
    /\ action_group_id_counter = 1
    /\ action_id_counter = 1
    /\ ref_kml_path = None
    /\ kml_content = DefaultTemplate
    /\ kmz_file = Untouched
    /\ error = NoVal
    /\ result = NoVal

NextRebuild ==
    \/ BuildBegin
    \/ BuildPoint
    \/ BuildEnd
    \/ BuildAgain

SpecRebuild == InitRebuild /\ [][NextRebuild]_vars

-----------------------------------------------------------------------------
(* The window's file list: ConverterApp.add_files, remove_selected_file and *)
(* set_poi_for_selected, on the paths 1..MaxPaths                            *)

\* the paths the file dialog can return
Paths == 1..MaxPaths

\* os.path.basename: the paths of the same parity are files of the same
\* name in different directories
Basename(fname) == fname % 2

\* The window between two clicks: kmz_file_var is None when empty and
\* Some(p) when it holds the name made from the path p; file_listbox is
\* the listbox's items.
FilesApp(kmz_file_var, file_listbox) ==
    [convert |-> FALSE, kmz_file_var |-> kmz_file_var, file_listbox |-> file_listbox]

\* file_listbox.curselection(): the listbox has the default select mode,
\* so no item or one item, by its 0-based index
Selections == {<<>>} \cup { <<index>> : index \in 0..(Len(app.file_listbox) - 1) }

\* list.pop(index), the list that is left
Pop(list, index) == SubSeq(list, 1, index) \o SubSeq(list, index + 2, Len(list))

RECURSIVE AddedFiles(_, _)
\* the loop of add_files: the names of the tuple not yet in the list, in
\* the tuple's order, each once
AddedFiles(list, filenames_tuple) ==
    IF filenames_tuple = <<>> THEN <<>>
    ELSE LET fname == Head(filenames_tuple) IN
         IF \E k \in 1..Len(list) : list[k] = fname
         THEN AddedFiles(list, Tail(filenames_tuple))
         ELSE <<fname>> \o AddedFiles(Append(list, fname), Tail(filenames_tuple))

FilesUnchanged ==
    UNCHANGED <<status_callback, built, mission_settings, pc, file_index, files_read,
                all_tagged_keyframes, thinned_tagged_keyframes, i, folder,
                start_altitude, total_distance_meters, calculated_duration_seconds,
                target_pitch, action_group_id_counter, action_id_counter,
                ref_kml_path, kml_content, kmz_file, error, result>>

add_files ==
    /\ pc = "window"
    /\ \E filenames_tuple \in SeqsUpTo(Paths, MaxPicked) :
         LET added == AddedFiles(json_files_list, filenames_tuple)
             listed == json_files_list \o added
         IN  /\ json_files_list' = listed
             /\ app' = [app EXCEPT
                    !.file_listbox = @ \o [k \in 1..Len(added) |-> Basename(added[k])],
                    !.kmz_file_var = IF added # <<>> /\ @ = None THEN Some(listed[1]) ELSE @]
    /\ UNCHANGED file_pois
    /\ FilesUnchanged

\* (mutant) the POI of the removed file is kept
remove_selected_file_KeepsPoi ==
    /\ pc = "window"
    /\ \E selected_indices \in Selections :
         IF selected_indices = <<>>
         THEN UNCHANGED <<app, json_files_list>>
         ELSE LET index == selected_indices[1] IN
              /\ json_files_list' = Pop(json_files_list, index)
              /\ app' = [app EXCEPT !.file_listbox = Pop(@, index)]
    /\ UNCHANGED file_pois
    /\ FilesUnchanged

remove_selected_file ==
    /\ pc = "window"
    /\ \E selected_indices \in Selections :
         IF selected_indices = <<>>
         THEN UNCHANGED <<app, json_files_list, file_pois>>
         ELSE LET index == selected_indices[1]
                  filepath == json_files_list[index + 1]
              IN  /\ json_files_list' = Pop(json_files_list, index)
                  /\ app' = [app EXCEPT !.file_listbox = Pop(@, index)]
                  /\ file_pois' = [file_pois EXCEPT ![filepath] = None]
    /\ FilesUnchanged

\* what the user has in a POI entry field: nothing, a number, or other text
PoiEntries(limit) == {Empty, Junk, Number(0), Number(limit + 1)}

set_poi_for_selected ==
    /\ pc = "window"
    /\ \E selected_indices \in Selections, lat_str \in PoiEntries(90) \cup {Number(1)},
          lon_str \in PoiEntries(180) :
         IF selected_indices = <<>>
         THEN UNCHANGED file_pois
         ELSE LET selected_filepath == json_files_list[selected_indices[1] + 1] IN
              IF lat_str = Empty \/ lon_str = Empty
              THEN file_pois' = [file_pois EXCEPT ![selected_filepath] = None]
              ELSE IF lat_str = Junk \/ lon_str = Junk
              THEN UNCHANGED file_pois
              ELSE LET lat == lat_str.value
                       lon == lon_str.value
                   IN  IF ~(-90 <= lat /\ lat <= 90 /\ -180 <= lon /\ lon <= 180)
                       THEN UNCHANGED file_pois
                       ELSE file_pois' = [file_pois EXCEPT ![selected_filepath] = <<lat, lon>>]
    /\ UNCHANGED <<app, json_files_list>>
    /\ FilesUnchanged

InitFiles ==
    /\ json_files_list = <<>>
    /\ file_pois = [fname \in Paths |-> None]
    /\ app = FilesApp(None, <<>>)
    /\ pc = "window"
    /\ mission_settings = Settings(None, "WGS84", "Follow Course", None)
    /\ status_callback = "returns"
    /\ built = <<>>
    /\ file_index = 0
    /\ files_read = <<>>
    /\ all_tagged_keyframes = <<>>
    /\ thinned_tagged_keyframes = <<>>
    /\ i = 0
    /\ folder = <<>>
    /\ start_altitude = 0
    /\ total_distance_meters = 0
    /\ calculated_duration_seconds = <<0, 1>>
    /\ target_pitch = DEFAULT_GIMBAL_PITCH
    /\ action_group_id_counter = 1
    /\ action_id_counter = 1
    /\ ref_kml_path = None
    /\ kml_content = DefaultTemplate
    /\ kmz_file = Untouched
    /\ error = NoVal
    /\ result = NoVal

NextFiles ==
    \/ add_files
    \/ remove_selected_file
    \/ set_poi_for_selected

SpecFiles == InitFiles /\ [][NextFiles]_vars

-----------------------------------------------------------------------------
(* What the properties speak of *)

\* create_dji_wpml has returned its document
DocumentBuilt == pc = "template"

\* thin_keyframes has returned
ThinDone == pc = "build"

\* the placemarks that were emitted, in document order: a skipped point's
\* Placemark element has no children
Emitted == SelectSeq(folder, LAMBDA p : p.children)

RECURSIVE GroupsOf(_)
\* the action groups of a list of placemarks, in document order
GroupsOf(placemarks) ==
    IF placemarks = <<>> THEN <<>>
    ELSE Head(placemarks).actionGroups \o GroupsOf(Tail(placemarks))

\* sub is found in seq at strictly increasing places: place[j] is the first
\* place after place[j-1] where seq holds sub[j], or past the end if none
IsSubsequence(sub, seq) ==
    LET place[j \in 0..Len(sub)] ==
            IF j = 0 THEN 0
            ELSE LET found == { k \in (place[j - 1] + 1)..Len(seq) : seq[k] = sub[j] }
                 IN  IF found = {} THEN Len(seq) + 1
                     ELSE CHOOSE k \in found : \A m \in found : k <= m
    IN  place[Len(sub)] <= Len(seq)

RECURSIVE Concatenation(_)
Concatenation(lists) ==
    IF lists = <<>> THEN <<>> ELSE Head(lists) \o Concatenation(Tail(lists))

PoiMode == mission_settings.heading_mode = "Point Towards File's POI"

\* create_template_kml has returned
TemplateMade == pc \in {"makedirs", "open", "waylines", "templatekml", "close"}

\* the errors that end the run inside load_and_tag_keyframes
LoadErrors ==
    {"ValueError: No JSON files selected", "FileNotFoundError", "JSONDecodeError",
     "Exception: Error processing file", "ValueError: No valid keyframes found"}

\* create_dji_wpml was called in this run
BuilderRan ==
    \/ pc \in {"point", "template"}
    \/ TemplateMade
    \/ pc = "done" /\ error \notin LoadErrors

\* the window's speed is <= 0, its turn damping < 0, or its manual heading,
\* under Manual Fixed Heading, is missing or outside [-180, 180]
InvalidWindow(a) ==
    \/ a.speed_var.kind = "number" /\ a.speed_var.value <= 0
    \/ a.turn_damping_var.kind = "number" /\ a.turn_damping_var.value < 0
    \/ /\ a.heading_mode_var = "Manual Fixed Heading"
       /\ \/ a.manual_heading_var.kind = "empty"
          \/ /\ a.manual_heading_var.kind = "number"
             /\ a.manual_heading_var.value \notin -180..180

\* the same of a settings record
InvalidRecord(settings) ==
    \/ settings.speed # None /\ Val(settings.speed) <= 0
    \/ settings.turnDamping < 0
    \/ /\ settings.heading_mode = "Manual Fixed Heading"
       /\ \/ settings.manual_heading = None
          \/ Val(settings.manual_heading) \notin -180..180

\* the sum of the distances between consecutive points of a list of <<lon, lat>>
RECURSIVE PathLength(_)
PathLength(coordinates) ==
    IF Len(coordinates) < 2 THEN 0
    ELSE calculate_distance(coordinates[1][2], coordinates[1][1],
                            coordinates[2][2], coordinates[2][1])
         + PathLength(Tail(coordinates))

\* the text of wpml:duration, in tenths of a second: f"{seconds:.1f}"
DurationText(seconds) == RoundHalfEven(10 * seconds[1], seconds[2])

\* the keyframe is one the loop emits: all three coordinate fields parse
ValidKeyframe(kf) == HasLatLon(kf) /\ HasAltitude(kf)

\* the keyframes given to create_dji_wpml that it emits, in order
ValidKeyframes ==
    SelectSeq([k \in 1..Len(thinned_tagged_keyframes) |-> thinned_tagged_keyframes[k][1]],
              ValidKeyframe)

-----------------------------------------------------------------------------
(* The properties *)

\* C1 (as claimed): in a built document the wpml:index values of the emitted
\* placemarks are 0..N-1 in document order, N the number of emitted
\* placemarks, also when points were skipped.
C1_IndicesContiguous ==
    DocumentBuilt =>
        \A k \in 1..Len(Emitted) : Emitted[k].index = k - 1

\* C2: the action-group ids, read in emission order, start at 1 and strictly
\* increase, and so do the action ids; at every moment of the build and in
\* the built document, skipped points or not.
C2_IdsStrictlyIncreasing ==
    LET groups == GroupsOf(Emitted) IN
    /\ groups # <<>> => groups[1].actionGroupId = 1 /\ groups[1].actionId = 1
    /\ \A a, b \in 1..Len(groups) :
         a < b => /\ groups[a].actionGroupId < groups[b].actionGroupId
                  /\ groups[a].actionId < groups[b].actionId

\* C2's case: a built document with a skipped point and three groups or more
C2_Witness ==
    /\ DocumentBuilt
    /\ \E k \in 1..Len(folder) : ~folder[k].children
    /\ Len(GroupsOf(Emitted)) >= 3

C4_ThinnedIsSubsequence ==
    LET M == Len(all_tagged_keyframes)
        T == mission_settings.desired_waypoints
        out == thinned_tagged_keyframes
    IN  (ThinDone /\ T # None /\ M > 1 /\ 1 < Val(T) /\ Val(T) < M) =>
            /\ Len(out) <= Val(T)
            /\ out[1] = all_tagged_keyframes[1]
            /\ out[Len(out)] = all_tagged_keyframes[M]
            /\ IsSubsequence(out, all_tagged_keyframes)

\* C4's case: eight keyframes thinned to three, the middle one a tie (3.5)
\* that rounds to the even index 4
C4_Witness ==
    /\ ThinDone
    /\ Len(all_tagged_keyframes) = 8
    /\ mission_settings.desired_waypoints = Some(3)
    /\ thinned_tagged_keyframes =
         <<all_tagged_keyframes[1], all_tagged_keyframes[5], all_tagged_keyframes[8]>>

\* C5: with no target, a target <= 1 or a target >= M, thin_keyframes returns
\* its input: the same elements in the same order.
C5_ThinNoOp ==
    LET M == Len(all_tagged_keyframes)
        T == mission_settings.desired_waypoints
    IN  (ThinDone /\ (T = None \/ Val(T) <= 1 \/ Val(T) >= M)) =>
            thinned_tagged_keyframes = all_tagged_keyframes

\* C5's case: five keyframes and a target of 0, returned as they were
C5_Witness ==
    /\ ThinDone
    /\ Len(all_tagged_keyframes) = 5
    /\ mission_settings.desired_waypoints = Some(0)
    /\ thinned_tagged_keyframes = all_tagged_keyframes

\* C6: for M >= 1 keyframes and a requested target T, thin_keyframes retains
\* at least min(M, T) and at most M of them.
C6_RetainedCount ==
    LET M == Len(all_tagged_keyframes)
        T == mission_settings.desired_waypoints
    IN  (ThinDone /\ M >= 1 /\ T # None) =>
            /\ Min(M, Val(T)) <= Len(thinned_tagged_keyframes)
            /\ Len(thinned_tagged_keyframes) <= M

\* C6's case: the long list thinned to a target of 10 has 10 or 11 elements
C6_Witness ==
    /\ ThinDone
    /\ Len(all_tagged_keyframes) = LongThinLen
    /\ mission_settings.desired_waypoints = Some(10)
    /\ Len(thinned_tagged_keyframes) \in {10, 11}

\* C7 (as claimed): when ges_json_to_dji_kmz returns False, nothing was
\* created or overwritten at the output path.
C7_NoArchiveOnFailure ==
    result = "False" => kmz_file = Untouched

\* C8: a file whose keyframe list is empty does not fail the load (the loop
\* goes on past it), and the load fails with "No valid keyframes found"
\* exactly when every file was processed and the merged list is empty.
C8_EmptyFileSkipped ==
    /\ \A k \in 1..Len(files_read) : files_read[k] = <<>> => file_index >= k
    /\ error = "ValueError: No valid keyframes found" <=>
         /\ pc = "done"
         /\ json_files_list # <<>>
         /\ file_index = Len(json_files_list)
         /\ all_tagged_keyframes = <<>>

\* C8's case: the load is over, an empty file was passed by and a later file
\* gave the merged list its keyframes
C8_Witness ==
    /\ pc = "thin"
    /\ files_read # <<>>
    /\ files_read[1] = <<>>
    /\ all_tagged_keyframes # <<>>

\* C9 (as claimed): the merged list is the concatenation, in file order, of
\* the files' keyframes, each tagged with its file, so as long as the lists
\* together; and with no thinning the built document has that many
\* placemarks, indexed 0..n-1.
C9_MergedAndIndexed ==
    /\ pc \in {"thin", "build", "point", "template"} =>
         /\ all_tagged_keyframes =
              Concatenation([k \in 1..Len(files_read) |-> Tagged(files_read[k], json_files_list[k])])
    /\ (DocumentBuilt /\ mission_settings.desired_waypoints = None) =>
         /\ Len(Emitted) = Len(all_tagged_keyframes)
         /\ \A k \in 1..Len(Emitted) : Emitted[k].index = k - 1

\* C10: under Point Towards File's POI a placemark whose file has no POI gets
\* followWayline, angle 0, angle-enable false, a placemark whose file has one
\* gets smoothTransition, and no point makes the build fail.
C10_MissingPoiDegrades ==
    PoiMode =>
        /\ \A k \in 1..Len(Emitted) :
             IF file_pois[Emitted[k].origin_file] = None
             THEN /\ Emitted[k].waypointHeadingMode = "followWayline"
                  /\ Emitted[k].waypointHeadingAngle = 0
                  /\ Emitted[k].waypointHeadingAngleEnable = "0"
             ELSE Emitted[k].waypointHeadingMode = "smoothTransition"
        /\ error # "TypeError: heading angle"

\* C10's case: a built document with a placemark from a file without a POI
\* and a placemark from a file with one
C10_Witness ==
    /\ DocumentBuilt
    /\ PoiMode
    /\ \E a, b \in 1..Len(Emitted) :
         /\ file_pois[Emitted[a].origin_file] = None
         /\ file_pois[Emitted[b].origin_file] # None

\* C11: in a built document a placemark has waypointHeadingAngleEnable true
\* only if it is the first or the last placemark of the whole document (of the
\* merged sequence, whatever files its neighbours come from) and only if the
\* heading mode is not Follow Course.
C11_EnabledOnlyAtGlobalEnds ==
    DocumentBuilt =>
        /\ \A k \in 1..Len(Emitted) :
             Emitted[k].waypointHeadingAngleEnable = "1" =>
                 /\ k = 1 \/ k = Len(Emitted)
                 /\ mission_settings.heading_mode # "Follow Course"
        /\ \A k \in 1..Len(folder) :
             (folder[k].children /\ folder[k].waypointHeadingAngleEnable = "1") =>
                 k = 1 \/ k = Len(folder)

\* C11's case: a document of three placemarks from two files, all with a POI:
\* the middle one is the last or the first of its file and is not enabled,
\* the two ends are
C11_Witness ==
    /\ DocumentBuilt
    /\ PoiMode
    /\ Len(Emitted) = 3
    /\ Emitted[1].origin_file # Emitted[3].origin_file
    /\ \A k \in 1..3 : file_pois[Emitted[k].origin_file] # None
    /\ Emitted[1].waypointHeadingAngleEnable = "1"
    /\ Emitted[2].waypointHeadingAngleEnable = "0"
    /\ Emitted[3].waypointHeadingAngleEnable = "1"

\* C12: the pitch resolved for a build is the fixed_pitch of the settings
\* clamped to [-90, 60], or 0 when the settings give none, and every gimbal
\* action of every placemark of the document, on-reach group and
\* between-points group alike, carries that one pitch.
C12_OnePitch ==
    LET given == mission_settings.fixed_pitch
        pitch == IF given = None THEN 0
                 ELSE IF Val(given) < -90 THEN -90
                 ELSE IF Val(given) > 60 THEN 60
                 ELSE Val(given)
        groups == GroupsOf(Emitted)
    IN  /\ pc \in {"point", "template"} => target_pitch = pitch
        /\ \A g \in 1..Len(groups) : groups[g].gimbalPitchRotateAngle = pitch

\* C12's case: a built document from settings with a pitch below the range,
\* with on-reach and between-points groups, all at -90
C12_Witness ==
    /\ DocumentBuilt
    /\ mission_settings.fixed_pitch = Some(-100)
    /\ Len(GroupsOf(Emitted)) >= 3
    /\ \E g \in 1..Len(GroupsOf(Emitted)) :
         /\ GroupsOf(Emitted)[g].actionActuatorFunc = "gimbalEvenlyRotate"
         /\ GroupsOf(Emitted)[g].gimbalPitchRotateAngle = -90

\* C13 (as claimed): the altitude reference is the altitude of the first
\* valid keyframe, a leading keyframe with missing or invalid coordinate data
\* being skipped and not fatal; an emitted placemark's execute height is its
\* altitude minus the reference under relativeToStartPoint and its altitude
\* under WGS84.
C13_ReferenceIsFirstValid ==
    /\ error # "KeyError: first keyframe altitude"
    /\ (pc \in {"point", "template"} /\ ValidKeyframes # <<>>) =>
         /\ start_altitude = Alt(ValidKeyframes[1])
         /\ \A k \in 1..Len(Emitted) :
              LET altitude == Alt(ValidKeyframes[k]) IN
              /\ mission_settings.altitudeType = "relativeToStartPoint" =>
                     Emitted[k].executeHeight = altitude - Alt(ValidKeyframes[1])
              /\ mission_settings.altitudeType = "WGS84" =>
                     Emitted[k].executeHeight = altitude

\* C14 (as claimed): the document, re-parsed, holds exactly one Placemark for
\* each emitted waypoint, with the same coordinates in the same order: a
\* skipped point leaves no Placemark element, not even an empty one.
C14_OnePlacemarkPerWaypoint ==
    DocumentBuilt =>
        /\ Len(folder) = Len(ValidKeyframes)
        /\ \A k \in 1..Len(folder) :
             /\ folder[k].children
             /\ folder[k].coordinates = <<Lon(ValidKeyframes[k]), Lat(ValidKeyframes[k])>>

\* C15 (as claimed): create_template_kml returns the reference document as it
\* is exactly when one is supplied, it parses as a document and it holds both
\* markers, missionConfig and droneInfo; in every other case (none, empty,
\* not parseable, a marker missing) it returns the default template.
C15_ReferenceReusedIffValid ==
    TemplateMade =>
        IF /\ ref_kml_path # None
           /\ Val(ref_kml_path).wellFormed
           /\ Val(ref_kml_path).missionConfig
           /\ Val(ref_kml_path).droneInfo
        THEN kml_content = Val(ref_kml_path)
        ELSE kml_content = DefaultTemplate

\* C16 (as claimed): a conversion whose settings have speed <= 0, turn
\* damping < 0 or, under Manual Fixed Heading, a manual heading missing or
\* outside [-180, 180] is rejected before the build: the mission builder
\* never runs on such settings and no archive is written.
C16_InvalidSettingsRejected ==
    (IF app.convert THEN InvalidWindow(app) ELSE InvalidRecord(mission_settings)) =>
        /\ ~BuilderRan
        /\ kmz_file = Untouched

\* C16 (amended): a conversion started by ConverterApp.convert with such
\* settings in the window is rejected by convert() with an error message
\* before ges_json_to_dji_kmz is called: nothing is loaded, the mission
\* builder never runs and no archive is written.
C16_WindowRejectsInvalid ==
    (app.convert /\ InvalidWindow(app)) =>
        /\ pc \in {"convert", "rejected"}
        /\ pc = "rejected" => error # NoVal
        /\ result = NoVal
        /\ files_read = <<>>
        /\ folder = <<>>
        /\ kmz_file = Untouched

\* C16's case: a window under Manual Fixed Heading with a heading of 181 and
\* a file selected was rejected for the heading
C16_Witness ==
    /\ app.convert
    /\ pc = "rejected"
    /\ json_files_list # <<>>
    /\ app.manual_heading_var = Number(181)
    /\ error = "ValueError: Manual Heading Angle must be between -180 and 180"

\* C17: calculate_bearing returns a value in (-180, 180]: the angle wrapped
\* into [0, 360), less 360 exactly when the wrapped value exceeds 180; for
\* every pair of points, two identical points included, for which it returns
\* 0 and does not fail.
C17_BearingInHalfOpenRange ==
    /\ error = NoVal
    /\ \A k \in 1..Len(Emitted) :
         LET kf == thinned_tagged_keyframes[Emitted[k].index + 1][1]
             poi == file_pois[Emitted[k].origin_file]
             bearing == Emitted[k].waypointHeadingAngle
             wrapped == (InitialBearing(Lat(kf), Lon(kf), poi[1], poi[2]) + 360) % 360
         IN  (PoiMode /\ poi # None) =>
                 /\ -180 < bearing /\ bearing <= 180
                 /\ 0 <= wrapped /\ wrapped < 360
                 /\ bearing = wrapped - (IF wrapped > 180 THEN 360 ELSE 0)
                 /\ (Lat(kf) = poi[1] /\ Lon(kf) = poi[2]) => bearing = 0

\* C17's case: a POI to the south-west of the waypoint, the wrapped angle 225
\* brought to -135
C17_Witness ==
    /\ PoiMode
    /\ Len(Emitted) = 1
    /\ file_pois[1] = <<Lat(thinned_tagged_keyframes[1][1]) - 1,
                        Lon(thinned_tagged_keyframes[1][1]) - 1>>
    /\ Emitted[1].waypointHeadingAngle = -135

\* C18 (as claimed): in a built document the last emitted placemark has turn
\* mode toPointAndStopWithContinuityCurvature and every other emitted
\* placemark toPointAndPassWithContinuityCurvature, also when trailing
\* keyframes were skipped.
C18_LastStopsOthersPass ==
    DocumentBuilt =>
        \A k \in 1..Len(Emitted) :
            Emitted[k].waypointTurnMode =
                IF k = Len(Emitted) THEN DEFAULT_TURN_MODE_LAST
                ELSE DEFAULT_TURN_MODE_INTERMEDIATE

\* C19 (as claimed): of the N emitted placemarks of a built document, the
\* placemark i (0-based) carries one on-reach group (gimbalRotate, start and
\* end i, trigger reachPoint), followed, exactly when i < N-1, by one
\* between-points group (gimbalEvenlyRotate, start i, end i+1, trigger
\* reachPoint when i = 0 and betweenAdjacentPoints otherwise); the last
\* placemark has no between-points group.
C19_GroupsPerPlacemark ==
    DocumentBuilt =>
        \A k \in 1..Len(Emitted) :
            LET n == k - 1
                groups == Emitted[k].actionGroups
            IN  /\ Len(groups) = IF n < Len(Emitted) - 1 THEN 2 ELSE 1
                /\ groups[1].actionActuatorFunc = "gimbalRotate"
                /\ groups[1].actionGroupStartIndex = n
                /\ groups[1].actionGroupEndIndex = n
                /\ groups[1].actionTriggerType = "reachPoint"
                /\ Len(groups) = 2 =>
                     /\ groups[2].actionActuatorFunc = "gimbalEvenlyRotate"
                     /\ groups[2].actionGroupStartIndex = n
                     /\ groups[2].actionGroupEndIndex = n + 1
                     /\ groups[2].actionTriggerType =
                            IF n = 0 THEN "reachPoint" ELSE "betweenAdjacentPoints"

\* C20 (as claimed): the distance written is the sum of the distances between
\* consecutive valid points, a point with a missing or invalid coordinate
\* field being passed over (the segment runs from the valid point before it
\* to the valid point after it) without ending the build; the duration
\* written is distance / speed when speed > 0 and 0 when speed <= 0.
C20_DistanceOverValidPoints ==
    pc \in {"point", "template"} =>
        LET distance ==
                PathLength([k \in 1..Len(ValidKeyframes) |->
                               <<Lon(ValidKeyframes[k]), Lat(ValidKeyframes[k])>>])
        IN  /\ total_distance_meters = distance
            /\ DurationText(calculated_duration_seconds) =
                   IF SpeedMps > 0 THEN RoundHalfEven(10 * distance, SpeedMps) ELSE 0

\* the stage of ges_json_to_dji_kmz a position belongs to: 1 load, 2 thin,
\* 3 build, 4 template, 5 package, 6 returned
Stage(position) ==
    CASE position \in {"start", "load"} -> 1
      [] position = "thin" -> 2
      [] position \in {"build", "point"} -> 3
      [] position = "template" -> 4
      [] position \in {"makedirs", "open", "waylines", "templatekml", "close"} -> 5
      [] OTHER -> 6

\* C21: the stages run in the order load, thin, build, template, package,
\* each on what the one before it produced: a step stays in its stage, moves
\* to the next one or ends the run, and changes only its own stage's output.
\* The archive is opened only after create_dji_wpml has returned the whole
\* document and create_template_kml the template, and True is returned only
\* when both entries have been written, in order, and the archive closed.
C21_StagesInOrder ==
    /\ [][/\ Stage(pc') \in {Stage(pc), Stage(pc) + 1, 6}
          /\ all_tagged_keyframes' # all_tagged_keyframes => Stage(pc) = 1
          /\ thinned_tagged_keyframes' # thinned_tagged_keyframes => Stage(pc) = 2
          /\ folder' # folder => Stage(pc) = 3
          /\ kml_content' # kml_content => Stage(pc) = 4
          /\ kmz_file' # kmz_file => Stage(pc) = 5]_vars
    /\ [](kmz_file.opened =>
            /\ Stage(pc) \in {5, 6}
            /\ thinned_tagged_keyframes =
                   thin_keyframes(all_tagged_keyframes, mission_settings.desired_waypoints)
            /\ Len(folder) = Len(thinned_tagged_keyframes)
            /\ kml_content = create_template_kml(ref_kml_path))
    /\ [](result = "True" =>
            /\ kmz_file.entries = <<"wpmz/waylines.wpml", "wpmz/template.kml">>
            /\ kmz_file.closed)

\* C21's case: a run returned True with a document of three placemarks
C21_Witness ==
    /\ result = "True"
    /\ Len(folder) = 3
    /\ kmz_file.closed

\* C22: the (keyframe, file) pairs thin_keyframes returns are pairs of its
\* input, in the input's order, so every keyframe keeps its file tag; and
\* under Point Towards File's POI the heading of every emitted placemark is
\* computed from the POI of the file its own keyframe is tagged with.
C22_PoiByOwnTag ==
    /\ pc \in {"build", "point", "template"} =>
           IsSubsequence(thinned_tagged_keyframes, all_tagged_keyframes)
    /\ (pc \in {"point", "template"} /\ PoiMode) =>
           \A k \in 1..Len(Emitted) :
               LET tag == thinned_tagged_keyframes[Emitted[k].index + 1][2]
                   poi_coords == file_pois[tag]
                   lat == Emitted[k].coordinates[2]
                   lon == Emitted[k].coordinates[1]
               IN  IF poi_coords = None
                   THEN Emitted[k].waypointHeadingMode = "followWayline"
                   ELSE /\ Emitted[k].waypointHeadingMode = "smoothTransition"
                        /\ Emitted[k].waypointHeadingAngle =
                               calculate_bearing(lat, lon, poi_coords[1], poi_coords[2])

\* C22's case: three keyframes of two files thinned to the first, of a file
\* with a POI, and the last, of a file without one; the document's second
\* placemark follows the wayline
C22_Witness ==
    /\ DocumentBuilt
    /\ PoiMode
    /\ Len(all_tagged_keyframes) = 3
    /\ Len(thinned_tagged_keyframes) = 2
    /\ thinned_tagged_keyframes[1][2] # thinned_tagged_keyframes[2][2]
    /\ file_pois[thinned_tagged_keyframes[1][2]] # None
    /\ file_pois[thinned_tagged_keyframes[2][2]] = None
    /\ Len(Emitted) = 2
    /\ Emitted[1].waypointHeadingMode = "smoothTransition"
    /\ Emitted[2].waypointHeadingMode = "followWayline"

\* C23: every call of create_dji_wpml enters its loop with both counters at
\* 1, whatever calls came before, and returns the document that every
\* earlier call with the same arguments returned.
C23_BuildsRepeat ==
    /\ (pc = "point" /\ i = 0) =>
           /\ action_group_id_counter = 1
           /\ action_id_counter = 1
    /\ DocumentBuilt => \A k \in 1..Len(built) : built[k] = WpmlDocument

\* C23's case: a call returned, after an earlier call with the same
\* arguments, a document of three placemarks with action groups 1 to 5
C23_Witness ==
    /\ DocumentBuilt
    /\ built # <<>>
    /\ Len(Emitted) = 3
    /\ action_group_id_counter = 6
    /\ built[1] = WpmlDocument

\* C24 (as claimed): an exception raised inside the callback while the
\* pipeline runs is not caught by ges_json_to_dji_kmz: the call does not
\* return False for it, the exception leaves the function.
C24_CallbackExceptionEscapes ==
    error \in {CallbackException, CallbackBaseException} => result = "raised"

\* C24 (amended): an Exception raised inside the callback while the pipeline
\* runs is caught by the except clause of ges_json_to_dji_kmz like any other
\* error: the run ends and the call returns False, or, when the report the
\* clause makes through the callback raises too, the exception leaves the
\* function; an exception that is no Exception always leaves it.  Nothing
\* leaves the function when the callback does not raise, and True is
\* returned only by a run without an error.
C24_CallbackExceptionCaught ==
    /\ error = CallbackException => (pc = "done" /\ result \in {"False", "raised"})
    /\ error = CallbackBaseException => (pc = "done" /\ result = "raised")
    /\ result = "raised" => status_callback = "raises"
    /\ result = "True" => error = NoVal

\* C24's case: the callback raised at its last report, after the archive
\* was written and closed, and the call returned False
C24_Witness ==
    /\ status_callback = "raises"
    /\ error = CallbackException
    /\ result = "False"
    /\ kmz_file.closed
    /\ kmz_file.entries = <<"wpmz/waylines.wpml", "wpmz/template.kml">>

\* C25: for a list of length M and an integer target 1 < T < M,
\* thin_keyframes returns exactly T elements: the T rounded sample indices
\* are pairwise distinct and contain 0 and M - 1, so adding the first and
\* the last index adds nothing.
C25_ExactlyTarget ==
    LET M == Len(all_tagged_keyframes)
        T == mission_settings.desired_waypoints
        out == thinned_tagged_keyframes
    IN  (ThinDone /\ T # None /\ 1 < Val(T) /\ Val(T) < M) =>
            /\ Len(out) = Val(T)
            /\ \A a, b \in 1..Len(out) : a < b => out[a] # out[b]
            /\ Cardinality(IndicesToKeep(M, Val(T))) = Val(T)

\* C25's case: twelve keyframes thinned to five, the ideal indices 0, 2.75,
\* 5.5, 8.25 and 11 rounded to 0, 3, 6, 8 and 11
C25_Witness ==
    /\ ThinDone
    /\ Len(all_tagged_keyframes) = 12
    /\ mission_settings.desired_waypoints = Some(5)
    /\ thinned_tagged_keyframes =
         [k \in 1..5 |-> all_tagged_keyframes[<<1, 4, 7, 9, 12>>[k]]]

\* the wpml:index values of the placemarks emitted
EmittedIndices == { Emitted[k].index : k \in 1..Len(Emitted) }

\* C26 (as claimed): in a built document the start index and the end index
\* of every action group are wpml:index values of emitted placemarks; the
\* end index i + 1 of a between-points group is never that of a skipped
\* point.
C26_GroupIndicesEmitted ==
    DocumentBuilt =>
        \A k \in 1..Len(GroupsOf(Emitted)) :
            /\ GroupsOf(Emitted)[k].actionGroupStartIndex \in EmittedIndices
            /\ GroupsOf(Emitted)[k].actionGroupEndIndex \in EmittedIndices

\* C27 (as claimed): the executeHeightMode of the folder agrees with the
\* executeHeight values: under WGS84, also when written as the default for
\* settings without altitudeType, every executeHeight is the keyframe's
\* altitude, and it is the altitude less the reference only under a
\* relative mode.
C27_HeightModeAgrees ==
    DocumentBuilt =>
        \A k \in 1..Len(Emitted) :
            LET alt_amsl == Alt(thinned_tagged_keyframes[Emitted[k].index + 1][1])
            IN  Emitted[k].executeHeight =
                    IF ExecuteHeightMode = "WGS84" THEN alt_amsl
                    ELSE alt_amsl - start_altitude

\* a list without its k-th element
Without(list, k) == SubSeq(list, 1, k - 1) \o SubSeq(list, k + 1, Len(list))

\* C28 (as claimed): the points that count in the distance are the points
\* emitted: a keyframe whose latitude and longitude parse is emitted, and a
\* keyframe skipped by the placemark loop adds no segment, the distance
\* and the duration being what they are for the list without it.
C28_DistancePointsEmitted ==
    DocumentBuilt =>
        \A k \in 1..Len(thinned_tagged_keyframes) :
            /\ HasLatLon(thinned_tagged_keyframes[k][1]) => folder[k].children
            /\ ~folder[k].children =>
                   LET distance == TotalDistance(Without(thinned_tagged_keyframes, k))
                   IN  /\ total_distance_meters = distance
                       /\ calculated_duration_seconds = Duration(distance, SpeedMps)

\* C29: after any sequence of add_files, remove_selected_file and
\* set_poi_for_selected, json_files_list holds no path twice and every path
\* that has a POI in file_pois is in json_files_list.
C29_NoDuplicateNoStrayPoi ==
    /\ \A a, b \in 1..Len(json_files_list) :
           a # b => json_files_list[a] # json_files_list[b]
    /\ \A fname \in DOMAIN file_pois :
           file_pois[fname] # None =>
               \E k \in 1..Len(json_files_list) : json_files_list[k] = fname

\* C29's case: the file added first (the output name was made from it) has
\* been removed, and of the two files listed now one has a POI
C29_Witness ==
    /\ pc = "window"
    /\ Len(json_files_list) = 2
    /\ app.kmz_file_var # None
    /\ \A k \in 1..2 : json_files_list[k] # Val(app.kmz_file_var)
    /\ file_pois[json_files_list[1]] = <<1, 0>>
    /\ file_pois[json_files_list[2]] = None
    /\ file_pois[Val(app.kmz_file_var)] = None


====
